---- MODULE Spec2Model ----
(***************************************************************************)
(* Model of the wpress archive Reader (src/reader.go).                     *)
(*                                                                         *)
(* The archive is a sequence of bytes (naturals, ASCII codes), the Reader  *)
(* walks it with a file offset.  Extract, GetFilesCount and List are       *)
(* modelled loop iteration by loop iteration.  The Header type lives in a  *)
(* file that is not part of src/; its layout and size parser are modelled  *)
(* from the specification, with scaled-down field widths.                  *)
(*                                                                         *)
(* Stream reads: the archive is an *os.File on a regular file.  A header   *)
(* read delivers min(headerSize, bytes left) bytes; payload reads may      *)
(* deliver any count from 1 up to the requested one (short reads), which   *)
(* is the case the payload loop of Extract is written for.                 *)
(***************************************************************************)
EXTENDS Integers, Sequences, FiniteSets, TLC

\* ------------------------------------------------------------------------
\* Bounds of the model
\* ------------------------------------------------------------------------
MaxEntries == 2
MaxOps == 3

\* ------------------------------------------------------------------------
\* Bytes
\* ------------------------------------------------------------------------
NUL == 0
Dot == 46
PathSeparator == 47
Space == 32

Min(a, b) == IF a < b THEN a ELSE b
Max(a, b) == IF a > b THEN a ELSE b

IsDigit(c) == c >= 48 /\ c <= 57

RECURSIVE Zeros(_)
Zeros(n) == IF n <= 0 THEN <<>> ELSE <<NUL>> \o Zeros(n - 1)

\* bytes.Trim(s, "\x00"): strips leading and trailing NUL bytes
RECURSIVE TrimLeft(_)
TrimLeft(s) ==
    IF s = <<>> THEN <<>>
    ELSE IF Head(s) = NUL THEN TrimLeft(Tail(s)) ELSE s

RECURSIVE TrimRight(_)
TrimRight(s) ==
    IF s = <<>> THEN <<>>
    ELSE IF s[Len(s)] = NUL THEN TrimRight(SubSeq(s, 1, Len(s) - 1)) ELSE s

Trim(s) == TrimRight(TrimLeft(s))

\* ------------------------------------------------------------------------
\* Header codec (header.go is not in src/: modelled from the specification)
\* ------------------------------------------------------------------------
nameSize == 5
prefixSize == 2
mtimeSize == 1
sizeSize == 2
headerSize == nameSize + prefixSize + mtimeSize + sizeSize

GetEOFBlock == Zeros(headerSize)

PopulateFromBytes(block) ==
    [ Name   |-> SubSeq(block, 1, nameSize),
      Prefix |-> SubSeq(block, nameSize + 1, nameSize + prefixSize),
      Mtime  |-> SubSeq(block, nameSize + prefixSize + 1,
                        nameSize + prefixSize + mtimeSize),
      Size   |-> SubSeq(block, nameSize + prefixSize + mtimeSize + 1,
                        headerSize) ]

\* decimal value of a sequence of digit bytes
RECURSIVE DecimalValue(_)
DecimalValue(s) ==
    IF s = <<>> THEN 0
    ELSE 10 * DecimalValue(SubSeq(s, 1, Len(s) - 1)) + (s[Len(s)] - 48)

IsDecimal(s) == s # <<>> /\ \A i \in 1..Len(s) : IsDigit(s[i])

\* parse_size: the trimmed size field as a non-negative decimal integer,
\* InvalidSize otherwise (the value returned with the error is 0)
GetSize(h) ==
    LET t == Trim(h.Size)
    IN  IF IsDecimal(t) THEN [size |-> DecimalValue(t), err |-> "nil"]
        ELSE [size |-> 0, err |-> "InvalidSize"]

\* ------------------------------------------------------------------------
\* package path: Clean and Dir on byte strings
\* ------------------------------------------------------------------------
\* the segments of s between separators, empty ones included
RECURSIVE SplitSegs(_, _)
SplitSegs(s, cur) ==
    IF s = <<>> THEN <<cur>>
    ELSE IF Head(s) = PathSeparator
         THEN <<cur>> \o SplitSegs(Tail(s), <<>>)
         ELSE SplitSegs(Tail(s), Append(cur, Head(s)))

DotSeg == <<Dot>>
DotDotSeg == <<Dot, Dot>>

\* process segments left to right onto the output stack (path.Clean's loop)
RECURSIVE CleanSegs(_, _, _)
CleanSegs(segs, out, rooted) ==
    IF segs = <<>> THEN out
    ELSE LET s == Head(segs)
             rest == Tail(segs)
         IN  IF s = <<>> \/ s = DotSeg THEN CleanSegs(rest, out, rooted)
             ELSE IF s = DotDotSeg
                  THEN IF out # <<>> /\ out[Len(out)] # DotDotSeg
                       THEN CleanSegs(rest, SubSeq(out, 1, Len(out) - 1), rooted)
                       ELSE IF rooted THEN CleanSegs(rest, out, rooted)
                            ELSE CleanSegs(rest, Append(out, s), rooted)
                  ELSE CleanSegs(rest, Append(out, s), rooted)

RECURSIVE JoinSegs(_)
JoinSegs(segs) ==
    IF segs = <<>> THEN <<>>
    ELSE IF Len(segs) = 1 THEN Head(segs)
         ELSE Head(segs) \o <<PathSeparator>> \o JoinSegs(Tail(segs))

\* each stage is computed once and its value handed to the next
Clean(p) ==
    IF p = <<>> THEN DotSeg
    ELSE LET rooted == Head(p) = PathSeparator
         IN  CHOOSE r \in
                 { IF rooted THEN <<PathSeparator>> \o body
                   ELSE IF body = <<>> THEN DotSeg ELSE body :
                     body \in { JoinSegs(out) :
                       out \in { CleanSegs(segs, <<>>, rooted) :
                         segs \in { SplitSegs(q, <<>>) : q \in {p} } } } } : TRUE

\* index of the last separator of p, 0 when there is none
RECURSIVE LastSlash(_)
LastSlash(p) ==
    IF p = <<>> THEN 0
    ELSE IF p[Len(p)] = PathSeparator THEN Len(p)
         ELSE LastSlash(SubSeq(p, 1, Len(p) - 1))

Dir(p) == Clean(SubSeq(p, 1, LastSlash(p)))

\* variant: the joined path is used as it is, without path.Clean
EntryPathUncleaned(h) ==
    <<Dot, PathSeparator>> \o Trim(h.Prefix) \o <<PathSeparator>> \o Trim(h.Name)

\* variant: the prefix field is joined with its NUL padding
EntryPathUntrimmedPrefix(h) ==
    Clean(<<Dot, PathSeparator>> \o h.Prefix \o <<PathSeparator>>
          \o Trim(h.Name))

\* "." + sep + trimmed prefix + sep + trimmed name, cleaned
EntryPath(h) ==
    Clean(<<Dot, PathSeparator>> \o Trim(h.Prefix) \o <<PathSeparator>>
          \o Trim(h.Name))

\* ------------------------------------------------------------------------
\* Filesystem below the working directory: directories and file contents
\* ------------------------------------------------------------------------
\* "." and chains of ".." always exist as directories
IsSpecialDir(p) ==
    LET segs == SplitSegs(p, <<>>)
    IN  p = DotSeg \/ \A i \in 1..Len(segs) : segs[i] = DotDotSeg

IsDir(f, p) == IsSpecialDir(p) \/ p \in f.dirs
IsFile(f, p) == p \in DOMAIN f.files

\* d and all its ancestors, as paths
Ancestors(d) ==
    LET segs == SplitSegs(d, <<>>)
    IN  { JoinSegs(SubSeq(segs, 1, i)) : i \in 1..Len(segs) }

\* os.MkdirAll(d): fails when d or an ancestor is a file, before anything is
\* created; otherwise creates every missing directory of the chain
MkdirAll(f, d) ==
    IF \E a \in Ancestors(d) : IsFile(f, a)
    THEN [fs |-> f, err |-> "ENOTDIR"]
    ELSE [fs |-> [f EXCEPT !.dirs = @ \cup { a \in Ancestors(d) : ~IsSpecialDir(a) }],
          err |-> "nil"]

\* variant: an existing file is opened without truncation
CreateFileNoTruncate(f, p) ==
    IF IsDir(f, p)
    THEN [fs |-> f, err |-> "EISDIR"]
    ELSE [fs |-> [f EXCEPT !.files =
                     [q \in (DOMAIN f.files) \cup {p} |->
                        IF q \in DOMAIN f.files THEN f.files[q] ELSE <<>>]],
          err |-> "nil"]

\* os.Create(p): fails on a directory; otherwise creates or truncates p
CreateFile(f, p) ==
    IF IsDir(f, p)
    THEN [fs |-> f, err |-> "EISDIR"]
    ELSE [fs |-> [f EXCEPT !.files =
                     [q \in (DOMAIN f.files) \cup {p} |->
                        IF q = p THEN <<>> ELSE f.files[q]]],
          err |-> "nil"]

\* file.Write(content) on the open destination file: appends
WriteFile(f, p, content) == [f EXCEPT !.files[p] = @ \o content]

\* ------------------------------------------------------------------------
\* Archive stream
\* ------------------------------------------------------------------------
\* variant: a block that ends exactly at the end of the stream is rejected
GetHeaderBlockOffByOne(a, off) ==
    LET avail == Max(0, Len(a) - off)
    IN  IF avail = 0
        THEN [block |-> <<>>, err |-> "EOF", next |-> off]
        ELSE IF avail <= headerSize
             THEN [block |-> <<>>, err |-> "unable to read header block size",
                   next |-> off + avail]
             ELSE [block |-> SubSeq(a, off + 1, off + headerSize),
                   err |-> "nil", next |-> off + headerSize]

\* variant: a full block is returned without moving the read position
GetHeaderBlockNoAdvance(a, off) ==
    LET avail == Max(0, Len(a) - off)
    IN  IF avail = 0
        THEN [block |-> <<>>, err |-> "EOF", next |-> off]
        ELSE IF avail < headerSize
             THEN [block |-> <<>>, err |-> "unable to read header block size",
                   next |-> off + avail]
             ELSE [block |-> SubSeq(a, off + 1, off + headerSize),
                   err |-> "nil", next |-> off]

\* r.File.Read(block) for a header: what is left, at most headerSize bytes;
\* nothing left is io.EOF, a partial block is the short-block error
GetHeaderBlock(a, off) ==
    LET avail == Max(0, Len(a) - off)
    IN  IF avail = 0
        THEN [block |-> <<>>, err |-> "EOF", next |-> off]
        ELSE IF avail < headerSize
             THEN [block |-> <<>>, err |-> "unable to read header block size",
                   next |-> off + avail]
             ELSE [block |-> SubSeq(a, off + 1, off + headerSize),
                   err |-> "nil", next |-> off + headerSize]

\* variant: the comparison inverted
IsEOFBlockInverted(block) == block # GetEOFBlock

\* bytes.Compare(block, h.GetEOFBlock()) == 0
IsEOFBlock(block) == block = GetEOFBlock

\* chunk size of the payload loop
ChunkSize == 512

\* the counts r.File.Read(content) may return when n bytes are requested
\* and avail > 0 bytes are left
ReadCounts(n, avail) == 1..Min(n, avail)

\* variant: the chunk is not truncated to the bytes that remain
BytesToReadFullChunk(total) == ChunkSize

\* bytesToRead: the chunk size, truncated to the bytes that remain
BytesToRead(total) == Min(ChunkSize, total)

\* variant: the requested count subtracted, a short read taken for a full one
RemainingByRequest(total, bytesRead, bytesToRead) == total - bytesToRead

\* totalBytesToRead -= bytesRead
Remaining(total, bytesRead, bytesToRead) == total - bytesRead

\* variant: Seek(size, 0), the size taken as an absolute position
SeekStart(off, size) == size

\* r.File.Seek(int64(size), 1): forward from the current position
SeekCurrent(off, size) == off + size

\* variant: a pointer receiver, the increment reaches the caller's Reader
CallerCountPointerReceiver(stored) == stored + 1

\* the caller's NumberOfFiles after r.NumberOfFiles++ in a method with a value
\* receiver: the increment is made on the copy
CallerCount(stored) == stored

\* count returned by Extract when the header read fails
ExtractHeaderErrCount(n) == 0

\* variant: the counter advanced by two for one entry
ListIncrementTwice(n) == n + 2

\* r.NumberOfFiles++ in List
ListIncrement(n) == n + 1

\* variant: List creates the entry's file as Extract does
ListFileSystemCreates(f, h) == CreateFile(MkdirAll(f, Dir(EntryPath(h))).fs, EntryPath(h)).fs

\* the filesystem as List leaves it: List makes no filesystem call
ListFileSystem(f, h) == f

\* time.Unix(ts, 0).Format("2006-01-02 15:04:05") for ts below one minute
\* (UTC): "1970-01-01 00:00:SS"
FormatTime(ts) ==
    <<49, 57, 55, 48, 45, 48, 49, 45, 48, 49, 32, 48, 48, 58, 48, 48, 58>>
    \o <<48 + (ts \div 10), 48 + (ts % 10)>>

\* variant: the line ends with the name alone, the prefix left out
FileLineNameOnly(h) ==
    LET timestampStr == Trim(h.Mtime)
        formattedTime == IF IsDecimal(timestampStr)
                         THEN FormatTime(DecimalValue(timestampStr))
                         ELSE timestampStr
    IN  Trim(h.Size) \o <<Space>> \o formattedTime \o <<Space>> \o Trim(h.Name)

\* the line List produces for a header: SIZE Mtime path
FileLine(h) ==
    LET timestampStr == Trim(h.Mtime)
        formattedTime == IF IsDecimal(timestampStr)
                         THEN FormatTime(DecimalValue(timestampStr))
                         ELSE timestampStr
    IN  Trim(h.Size) \o <<Space>> \o formattedTime \o <<Space>> \o EntryPath(h)

\* ------------------------------------------------------------------------
\* The archive as the format defines it: entries up to the first sentinel
\* ------------------------------------------------------------------------
\* walks the headers from offset off; end tells how the walk ended:
\* "sentinel", "truncatedHeader", "invalidSize" or "truncatedPayload"
RECURSIVE FormatWalk(_, _, _)
FormatWalk(a, off, acc) ==
    IF off + headerSize > Len(a)
    THEN [end |-> "truncatedHeader", entries |-> acc, at |-> off]
    ELSE LET block == SubSeq(a, off + 1, off + headerSize)
             h == PopulateFromBytes(block)
             t == Trim(h.Size)
             n == DecimalValue(t)
         IN  IF block = Zeros(headerSize)
             THEN [end |-> "sentinel", entries |-> acc, at |-> off]
             ELSE IF ~IsDecimal(t)
             THEN [end |-> "invalidSize", entries |-> acc, at |-> off]
             ELSE IF off + headerSize + n > Len(a)
             THEN [end |-> "truncatedPayload", entries |-> acc, at |-> off]
             ELSE FormatWalk(a, off + headerSize + n,
                     Append(acc, [hdr |-> off, size |-> n, path |-> EntryPath(h),
                                  payload |-> SubSeq(a, off + headerSize + 1,
                                                     off + headerSize + n)]))

\* ------------------------------------------------------------------------
\* State
\* ------------------------------------------------------------------------
VARIABLES
    archive,           \* the bytes of the archive file
    format,            \* the entries of the archive as the format defines them
    offset,            \* position of r.File
    NumberOfFiles,     \* the caller's Reader.NumberOfFiles
    rNumberOfFiles,    \* NumberOfFiles of the receiver copy (value receivers)
    pc,                \* "idle" or the loop the running operation is in
    fs,                \* the filesystem Extract writes to
    pathToFile,        \* destination file open in Extract
    totalBytesToRead,  \* payload bytes left for the open destination file
    fileList,          \* the list List is building
    trace,             \* entries completed by the running traversal
    hdrAt,             \* offset of the header of the entry in progress
    made,              \* directories MkdirAll created for the entry in progress
    shortRead,         \* a payload read has returned fewer bytes than requested
    readHigh,          \* end of the last byte range read by the traversal
    atCall,            \* filesystem and stored counter when the operation began
    hist               \* what the finished operations returned, in order

vars == <<archive, format, offset, NumberOfFiles, rNumberOfFiles, pc, fs, pathToFile,
          totalBytesToRead, fileList, trace, hdrAt, made, shortRead, readHigh, atCall,
          hist>>

\* ------------------------------------------------------------------------
\* Archives the Reader is opened on
\* ------------------------------------------------------------------------
Pad(s, w) == s \o Zeros(w - Len(s))

MkHeader(k) ==
    Pad(k.name, nameSize) \o Pad(k.prefix, prefixSize)
    \o Pad(k.mtime, mtimeSize) \o Pad(k.size, sizeSize)

\* payload of the i-th entry: bytes that differ between entries and positions
Payload(i, n) == [j \in 1..n |-> 64 + 8 * i + j]

EntryKinds ==
    { [name |-> <<97>>, prefix |-> <<>>,       mtime |-> <<49>>,  size |-> <<49>>,  plen |-> 1],
      [name |-> <<98>>, prefix |-> <<97>>,     mtime |-> <<120>>, size |-> <<50>>,  plen |-> 2],
      [name |-> <<97>>, prefix |-> <<>>,       mtime |-> <<50>>,  size |-> <<48>>,  plen |-> 0],
      [name |-> <<99>>, prefix |-> <<>>,       mtime |-> <<49>>,  size |-> <<120>>, plen |-> 0],
      [name |-> <<97>>, prefix |-> <<46, 46>>, mtime |-> <<49>>,  size |-> <<49>>,  plen |-> 1] }

EntryLists == UNION { [1..n -> EntryKinds] : n \in 0..MaxEntries }

RECURSIVE EncodeFrom(_, _)
EncodeFrom(es, i) ==
    IF i > Len(es) THEN <<>>
    ELSE MkHeader(es[i]) \o Payload(i, es[i].plen) \o EncodeFrom(es, i + 1)

Encode(es) == EncodeFrom(es, 1)

\* a well-formed entry and a sentinel, placed after the first sentinel
Trailer ==
    MkHeader([name |-> <<122>>, prefix |-> <<>>, mtime |-> <<49>>, size |-> <<49>>])
    \o <<90>> \o GetEOFBlock

Tails == {"sentinel", "trailing", "none", "midheader", "midpayload"}

MkArchive(es, tail) ==
    LET body == Encode(es)
    IN  CASE tail = "sentinel"   -> body \o GetEOFBlock
          [] tail = "trailing"   -> body \o GetEOFBlock \o Trailer
          [] tail = "none"       -> body
          [] tail = "midheader"  -> body \o SubSeq(Trailer, 1, headerSize - 1)
          [] tail = "midpayload" -> SubSeq(body, 1, Len(body) - 1)

\* archives written out by hand: the a.txt/hello scenario, a name that holds
\* a separator, a size field with a sign
ScenarioArchive ==
    MkHeader([name |-> <<97, 46, 116, 120, 116>>, prefix |-> <<>>, mtime |-> <<49>>,
              size |-> <<53>>])
    \o <<104, 101, 108, 108, 111>> \o GetEOFBlock

SeparatorNameArchive ==
    MkHeader([name |-> <<100, 47, 102>>, prefix |-> <<>>, mtime |-> <<49>>,
              size |-> <<49>>])
    \o <<88>> \o GetEOFBlock

SignedSizeArchive ==
    MkHeader([name |-> <<110>>, prefix |-> <<>>, mtime |-> <<49>>,
              size |-> <<45, 49>>])
    \o GetEOFBlock

SpecialArchives == {ScenarioArchive, SeparatorNameArchive, SignedSizeArchive}

Archives == { MkArchive(es, t) : es \in EntryLists, t \in Tails } \cup SpecialArchives

\* the filesystem before the first operation: it holds a file ../a with
\* older content
InitialFS ==
    { [dirs |-> {}, files |-> (<<46, 46, 47, 97>> :> <<33, 33, 33>>)] }

NoPath == <<>>

Init ==
    /\ archive \in Archives
    /\ format = FormatWalk(archive, 0, <<>>)
    /\ fs \in InitialFS
    /\ offset = 0
    /\ NumberOfFiles = 0
    /\ rNumberOfFiles = 0
    /\ pc = "idle"
    /\ pathToFile = NoPath
    /\ totalBytesToRead = 0
    /\ fileList = <<>>
    /\ trace = <<>>
    /\ hdrAt = 0
    /\ made = {}
    /\ shortRead = FALSE
    /\ readHigh = 0
    /\ atCall = [fs |-> fs, stored |-> 0]
    /\ hist = <<>>

\* ------------------------------------------------------------------------
\* Operations
\* ------------------------------------------------------------------------
\* the record of a finished operation
Returned(op, count, list, err, stop, f, off, tr, hi, before) ==
    [op |-> op, count |-> count, list |-> list, err |-> err, stop |-> stop,
     fs |-> f, offset |-> off, trace |-> tr, readHigh |-> hi,
     fsBefore |-> before.fs, stored |-> before.stored]

Return(op, count, list, err, stop, f, off, tr, hi) ==
    /\ hist' = Append(hist, Returned(op, count, list, err, stop, f, off, tr, hi, atCall))
    /\ pc' = "idle"

\* Extract: seek to the start; the receiver is a copy of the caller's Reader
CallExtract ==
    /\ pc = "idle"
    /\ Len(hist) < MaxOps
    /\ rNumberOfFiles' = NumberOfFiles
    /\ offset' = 0
    /\ trace' = <<>>
    /\ readHigh' = 0
    /\ hdrAt' = 0
    /\ atCall' = [fs |-> fs, stored |-> NumberOfFiles]
    /\ pc' = "Extract"
    /\ UNCHANGED <<archive, format, NumberOfFiles, fs, pathToFile, totalBytesToRead,
                   fileList, made, shortRead, hist>>

\* Extract, one iteration of the outer loop up to the creation of the file
ExtractHeader ==
    /\ pc = "Extract"
    /\ \E g \in {GetHeaderBlock(archive, offset)} :
           /\ offset' = g.next
           /\ readHigh' = g.next
           /\ hdrAt' = offset
           /\ IF g.err # "nil"
              THEN /\ Return("Extract", ExtractHeaderErrCount(rNumberOfFiles), <<>>,
                             g.err, "error", fs, g.next, trace, g.next)
                   /\ UNCHANGED <<fs, pathToFile, totalBytesToRead, made>>
              ELSE IF IsEOFBlock(g.block)
              THEN /\ Return("Extract", rNumberOfFiles, <<>>, "nil", "eof",
                             fs, g.next, trace, g.next)
                   /\ UNCHANGED <<fs, pathToFile, totalBytesToRead, made>>
              ELSE \E h \in {PopulateFromBytes(g.block)} : \E p \in {EntryPath(h)} :
                   \E m \in {MkdirAll(fs, Dir(p))} : \E c \in {CreateFile(m.fs, p)} :
                       IF m.err # "nil"
                       THEN /\ Return("Extract", rNumberOfFiles, <<>>, m.err,
                                      "error", m.fs, g.next, trace, g.next)
                            /\ fs' = m.fs
                            /\ UNCHANGED <<pathToFile, totalBytesToRead, made>>
                       ELSE IF c.err # "nil"
                       THEN /\ Return("Extract", rNumberOfFiles, <<>>, c.err,
                                      "error", c.fs, g.next, trace, g.next)
                            /\ fs' = c.fs
                            /\ made' = m.fs.dirs \ fs.dirs
                            /\ UNCHANGED <<pathToFile, totalBytesToRead>>
                       ELSE /\ fs' = c.fs
                            /\ made' = m.fs.dirs \ fs.dirs
                            /\ pathToFile' = p
                            /\ totalBytesToRead' = GetSize(h).size
                            /\ pc' = "ExtractPayload"
                            /\ UNCHANGED hist
    /\ UNCHANGED <<archive, format, NumberOfFiles, rNumberOfFiles, fileList, trace,
                   shortRead, atCall>>

\* Extract, one iteration of the payload loop that reads a chunk
ExtractChunk ==
    /\ pc = "ExtractPayload"
    /\ LET bytesToRead == BytesToRead(totalBytesToRead)
           avail == Max(0, Len(archive) - offset)
       IN  /\ bytesToRead # 0
           /\ IF avail = 0
              THEN /\ Return("Extract", rNumberOfFiles, <<>>, "EOF", "error",
                             fs, offset, trace, readHigh)
                   /\ UNCHANGED <<offset, readHigh, fs, totalBytesToRead, shortRead>>
              ELSE \E bytesRead \in ReadCounts(bytesToRead, avail) :
                     /\ totalBytesToRead' = Remaining(totalBytesToRead, bytesRead, bytesToRead)
                     /\ fs' = WriteFile(fs, pathToFile,
                                        SubSeq(archive, offset + 1, offset + bytesRead))
                     /\ offset' = offset + bytesRead
                     /\ readHigh' = offset + bytesRead
                     /\ shortRead' = (shortRead \/ bytesRead < bytesToRead)
                     /\ UNCHANGED <<pc, hist>>
    /\ UNCHANGED <<archive, format, NumberOfFiles, rNumberOfFiles, pathToFile, fileList,
                   trace, hdrAt, made, atCall>>

\* Extract, end of the payload loop: close the file, count the entry
ExtractClose ==
    /\ pc = "ExtractPayload"
    /\ BytesToRead(totalBytesToRead) = 0
    /\ rNumberOfFiles' = rNumberOfFiles + 1
    /\ NumberOfFiles' = CallerCount(NumberOfFiles)
    /\ trace' = Append(trace, [hdr |-> hdrAt, path |-> pathToFile, mk |-> made])
    /\ pathToFile' = NoPath
    /\ pc' = "Extract"
    /\ UNCHANGED <<archive, format, offset, fs, totalBytesToRead, fileList,
                   hdrAt, made, shortRead, readHigh, hist, atCall>>

\* GetFilesCount: the stored count when it is not zero, else a traversal
\* by a copy of the caller's Reader
CallGetFilesCount ==
    /\ pc = "idle"
    /\ Len(hist) < MaxOps
    /\ atCall' = [fs |-> fs, stored |-> NumberOfFiles]
    /\ rNumberOfFiles' = NumberOfFiles
    /\ IF NumberOfFiles # 0
       THEN /\ hist' = Append(hist, Returned("GetFilesCount", NumberOfFiles, <<>>,
                                             "nil", "cached", fs, offset, <<>>, 0,
                                             [fs |-> fs, stored |-> NumberOfFiles]))
            /\ UNCHANGED <<pc, offset>>
       ELSE /\ offset' = 0
            /\ pc' = "GetFilesCount"
            /\ UNCHANGED hist
    /\ trace' = <<>>
    /\ readHigh' = 0
    /\ hdrAt' = 0
    /\ UNCHANGED <<archive, format, NumberOfFiles, fs, pathToFile, totalBytesToRead,
                   fileList, made, shortRead>>

\* GetFilesCount, one iteration of the loop
GetFilesCountStep ==
    /\ pc = "GetFilesCount"
    /\ \E g \in {GetHeaderBlock(archive, offset)} :
           /\ readHigh' = g.next
           /\ hdrAt' = offset
           /\ IF g.err # "nil"
              THEN /\ Return("GetFilesCount", 0, <<>>, g.err, "error", fs, g.next,
                             trace, g.next)
                   /\ offset' = g.next
                   /\ UNCHANGED <<rNumberOfFiles, trace>>
              ELSE IF IsEOFBlock(g.block)
              THEN /\ Return("GetFilesCount", rNumberOfFiles, <<>>, "nil", "eof",
                             fs, g.next, trace, g.next)
                   /\ offset' = g.next
                   /\ UNCHANGED <<rNumberOfFiles, trace>>
              ELSE \E h \in {PopulateFromBytes(g.block)} : \E sz \in {GetSize(h)} :
                       IF sz.err # "nil"
                       THEN /\ Return("GetFilesCount", 0, <<>>, sz.err, "error",
                                      fs, g.next, trace, g.next)
                            /\ offset' = g.next
                            /\ UNCHANGED <<rNumberOfFiles, trace>>
                       ELSE /\ offset' = SeekCurrent(g.next, sz.size)
                            /\ rNumberOfFiles' = rNumberOfFiles + 1
                            /\ trace' = Append(trace, [hdr |-> offset, path |-> EntryPath(h),
                                                       mk |-> {}])
                            /\ UNCHANGED <<pc, hist>>
    /\ UNCHANGED <<archive, format, NumberOfFiles, fs, pathToFile, totalBytesToRead,
                   fileList, made, shortRead, atCall>>

\* List: reset the caller's counter, seek to the start
CallList ==
    /\ pc = "idle"
    /\ Len(hist) < MaxOps
    /\ atCall' = [fs |-> fs, stored |-> NumberOfFiles]
    /\ fileList' = <<>>
    /\ NumberOfFiles' = 0
    /\ offset' = 0
    /\ trace' = <<>>
    /\ readHigh' = 0
    /\ hdrAt' = 0
    /\ pc' = "List"
    /\ UNCHANGED <<archive, format, rNumberOfFiles, fs, pathToFile, totalBytesToRead,
                   made, shortRead, hist>>

\* List, one iteration of the loop
ListStep ==
    /\ pc = "List"
    /\ \E g \in {GetHeaderBlock(archive, offset)} :
           /\ readHigh' = g.next
           /\ hdrAt' = offset
           /\ IF g.err # "nil"
              THEN /\ Return("List", Len(fileList), fileList, "nil", "error", fs,
                             g.next, trace, g.next)
                   /\ offset' = g.next
                   /\ UNCHANGED <<NumberOfFiles, fileList, trace, fs>>
              ELSE IF IsEOFBlock(g.block)
              THEN /\ Return("List", Len(fileList), fileList, "nil", "eof", fs,
                             g.next, trace, g.next)
                   /\ offset' = g.next
                   /\ UNCHANGED <<NumberOfFiles, fileList, trace, fs>>
              ELSE \E h \in {PopulateFromBytes(g.block)} :
                       /\ fileList' = Append(fileList, FileLine(h))
                       /\ offset' = SeekCurrent(g.next, GetSize(h).size)
                       /\ NumberOfFiles' = ListIncrement(NumberOfFiles)
                       /\ fs' = ListFileSystem(fs, h)
                       /\ trace' = Append(trace, [hdr |-> offset, path |-> EntryPath(h),
                                                  mk |-> {}])
                       /\ UNCHANGED <<pc, hist>>
    /\ UNCHANGED <<archive, format, rNumberOfFiles, pathToFile, totalBytesToRead, made,
                   shortRead, atCall>>

Next ==
    \/ CallExtract
    \/ ExtractHeader
    \/ ExtractChunk
    \/ ExtractClose
    \/ CallGetFilesCount
    \/ GetFilesCountStep
    \/ CallList
    \/ ListStep

Spec == Init /\ [][Next]_vars

\* the steps of a running operation: synchronous code, it keeps running
Step ==
    \/ ExtractHeader
    \/ ExtractChunk
    \/ ExtractClose
    \/ GetFilesCountStep
    \/ ListStep

\* archives for the runs checked under fairness: the hand-written ones, and
\* no entry, one entry or the same entry twice with every tail
RepeatedEntryLists ==
    {<<>>} \cup { <<k>> : k \in EntryKinds } \cup { <<k, k>> : k \in EntryKinds }

FairArchives ==
    SpecialArchives \cup { MkArchive(es, tail) : es \in RepeatedEntryLists, tail \in Tails }

FairInit == Init /\ archive \in FairArchives

FairSpec == FairInit /\ [][Next]_vars /\ WF_vars(Step)

\* ------------------------------------------------------------------------
\* Reference facts about the archive
\* ------------------------------------------------------------------------
Format == format
ValidArchive == Format.end = "sentinel"
Entries == Format.entries
NumEntries == Len(Entries)

FinishedOp(op) == { i \in 1..Len(hist) : hist[i].op = op }

\* ------------------------------------------------------------------------
\* Claims
\* ------------------------------------------------------------------------

\* C1: for a valid archive with n entries, an Extract that returns without
\* error returns the count n, whatever operations ran before it on the Reader.
C1_ExtractCountsFromZero ==
    ValidArchive =>
        \A i \in FinishedOp("Extract") :
            hist[i].err = "nil" => hist[i].count = NumEntries

\* C2: for a valid archive, the count GetFilesCount returns equals the number
\* of descriptors List returns, in whatever order and after whatever other
\* operations the two ran; both equal the number of entries and carry no error.
C2_CountEqualsList ==
    ValidArchive =>
        /\ \A i \in FinishedOp("GetFilesCount"), j \in FinishedOp("List") :
              hist[i].count = Len(hist[j].list)
        /\ \A i \in FinishedOp("GetFilesCount") :
              hist[i].count = NumEntries /\ hist[i].err = "nil"
        /\ \A j \in FinishedOp("List") :
              Len(hist[j].list) = NumEntries /\ hist[j].err = "nil"

\* GetFilesCount ran before List (full traversal) and after it (stored count),
\* with an Extract in between, on a valid archive of two entries
C2_Witness ==
    /\ ValidArchive
    /\ NumEntries = 2
    /\ Len(hist) = 3
    /\ hist[1].op = "List"
    /\ hist[2].op = "Extract"
    /\ hist[3].op = "GetFilesCount"
    /\ hist[3].stop = "cached"

\* the file at path p in filesystem f holds exactly content
Holds(f, p, content) == IsFile(f, p) /\ f.files[p] = content

\* entry k is the last of the first n entries written to its path
LastAtPath(k, n) == \A j \in (k + 1)..n : Entries[j].path # Entries[k].path

\* C3 as stated: for a valid archive, after an Extract that returned without
\* error, the destination file of every entry holds exactly that entry's
\* payload bytes.
C3_EveryEntryFileHoldsItsPayload ==
    ValidArchive =>
        \A i \in FinishedOp("Extract") :
            hist[i].err = "nil" =>
                \A k \in 1..NumEntries :
                    Holds(hist[i].fs, Entries[k].path, Entries[k].payload)

\* C3 amended: for a valid archive, every entry Extract completed left, when
\* Extract returned, exactly its size payload bytes in its destination file,
\* in stream order, unless a later completed entry has the same destination
\* path (the file then holds that later entry's payload); an Extract without
\* error completed every entry.  Short reads do not change this.
C3_LastEntryFileHoldsItsPayload ==
    ValidArchive =>
        \A i \in FinishedOp("Extract") :
            LET n == Len(hist[i].trace)
            IN  /\ n <= NumEntries
                /\ hist[i].err = "nil" => n = NumEntries
                /\ \A k \in 1..n :
                      /\ hist[i].trace[k].hdr = Entries[k].hdr
                      /\ LastAtPath(k, n) =>
                            Holds(hist[i].fs, Entries[k].path, Entries[k].payload)

\* a valid archive of two entries with different paths extracted without
\* error, the two-byte payload delivered by short reads
C3_Witness ==
    /\ ValidArchive
    /\ shortRead
    /\ Len(hist) = 1
    /\ NumEntries = 2
    /\ Entries[1].path # Entries[2].path
    /\ \E i \in FinishedOp("Extract") :
          /\ hist[i].err = "nil"
          /\ \E k \in 1..2 : Entries[k].size = 2

\* C4: two Extract calls in a row leave the same filesystem after the second
\* as after the first and return the same count and error.
C4_ExtractIdempotent ==
    \A i \in 1..(Len(hist) - 1) :
        (hist[i].op = "Extract" /\ hist[i + 1].op = "Extract") =>
            /\ hist[i + 1].fs = hist[i].fs
            /\ hist[i + 1].count = hist[i].count
            /\ hist[i + 1].err = hist[i].err

\* two Extracts in a row, each writing two entries, the first of them over an
\* older file
C4_Witness ==
    /\ Len(hist) >= 2
    /\ hist[1].op = "Extract"
    /\ hist[2].op = "Extract"
    /\ hist[1].err = "nil"
    /\ Len(hist[2].trace) = 2
    /\ hist[1].fsBefore # hist[1].fs
    /\ hist[1].fsBefore.files # <<>>
    /\ \E p \in DOMAIN hist[2].fs.files : hist[2].fs.files[p] # <<>>

\* C5: when the stream ends in the middle of a header (some bytes of it are
\* there, fewer than headerSize), every operation returns an error and counts
\* nothing for the partial block.
C5_TruncatedHeaderIsAnError ==
    (Format.end = "truncatedHeader" /\ Len(archive) > Format.at) =>
        \A i \in 1..Len(hist) :
            /\ hist[i].err # "nil"
            /\ Len(hist[i].trace) <= NumEntries

\* C6: an operation stopped by an error reports the entries completed before
\* it: Extract returns their number, List their descriptors.
C6_PartialProgressReported ==
    \A i \in 1..Len(hist) :
        hist[i].stop = "error" =>
            /\ hist[i].op = "Extract" => hist[i].count = Len(hist[i].trace)
            /\ hist[i].op = "List" => Len(hist[i].list) = Len(hist[i].trace)

\* C7: an entry whose size field is not a non-negative decimal integer stops
\* every operation with an error: the entry is not counted, listed or
\* extracted and no later header is read.
C7_InvalidSizeIsFatal ==
    Format.end = "invalidSize" =>
        /\ Len(trace) <= NumEntries
        /\ readHigh <= Format.at + headerSize
        /\ \A i \in 1..Len(hist) :
              /\ hist[i].err # "nil"
              /\ hist[i].readHigh <= Format.at + headerSize

SentinelOnly == archive = GetEOFBlock

\* C8: on an archive that is only the sentinel, Extract, List and
\* GetFilesCount return a count of 0 (List: no descriptor) and no error, and
\* the filesystem stays as it was.
C8_SentinelOnlyArchive ==
    SentinelOnly =>
        /\ fs \in InitialFS
        /\ \A i \in 1..Len(hist) :
              /\ hist[i].count = 0
              /\ hist[i].list = <<>>
              /\ hist[i].err = "nil"
              /\ hist[i].fs = hist[i].fsBefore

\* the three operations have all returned on the sentinel-only archive
C8_Witness ==
    /\ SentinelOnly
    /\ Len(hist) = 3
    /\ {hist[i].op : i \in 1..3} = {"Extract", "List", "GetFilesCount"}

\* files the filesystem f holds that the first n entries do not name
Foreign(f, n) ==
    { p \in DOMAIN f.files : \A k \in 1..n : Entries[k].path # p }

\* C9: when the walk of the headers reaches an all-zero block, no operation
\* reads past that block, counts, lists or extracts an entry after it; an
\* operation that reaches it stops there without error.
C9_SentinelEndsTraversal ==
    Format.end = "sentinel" =>
        /\ readHigh <= Format.at + headerSize
        /\ offset <= Format.at + headerSize
        /\ Len(trace) <= NumEntries
        /\ Len(fileList) <= NumEntries
        /\ Foreign(fs, NumEntries) \subseteq DOMAIN atCall.fs.files
        /\ \A i \in 1..Len(hist) :
              /\ hist[i].readHigh <= Format.at + headerSize
              /\ Len(hist[i].trace) <= NumEntries
              /\ hist[i].stop = "eof" =>
                    /\ hist[i].offset = Format.at + headerSize
                    /\ hist[i].err = "nil"
                    /\ Len(hist[i].trace) = NumEntries

\* each operation has stopped at the sentinel of an archive that has a
\* well-formed entry after it
C9_Witness ==
    /\ Format.end = "sentinel"
    /\ NumEntries >= 1
    /\ Len(archive) >= Format.at + 2 * headerSize
    /\ ~IsEOFBlock(SubSeq(archive, Format.at + headerSize + 1, Format.at + 2 * headerSize))
    /\ \E i, j, k \in 1..Len(hist) :
          /\ hist[i].op = "Extract" /\ hist[i].stop = "eof"
          /\ hist[j].op = "List" /\ hist[j].stop = "eof"
          /\ hist[k].op = "GetFilesCount" /\ hist[k].stop = "eof"

\* C10: List leaves the filesystem as it found it, on every archive: while it
\* runs and when it has returned.
C10_ListLeavesFilesystem ==
    /\ pc = "List" => fs = atCall.fs
    /\ \A i \in FinishedOp("List") : hist[i].fs = hist[i].fsBefore

\* a List that produced two descriptors ran after an Extract had written files
C10_Witness ==
    /\ Len(hist) >= 2
    /\ hist[1].op = "Extract"
    /\ hist[2].op = "List"
    /\ Len(hist[2].list) = 2
    /\ hist[2].fsBefore.files # <<>>
    /\ hist[2].fsBefore.dirs # {}

\* the header decoded from the block at offset off of the archive
HeaderAt(off) == PopulateFromBytes(SubSeq(archive, off + 1, off + headerSize))

\* the size field of the header at off reads as the number 0
SizeZeroAt(off) ==
    LET t == Trim(HeaderAt(off).Size)
    IN  IsDecimal(t) /\ DecimalValue(t) = 0

ExtractRunning == pc \in {"Extract", "ExtractPayload"}

\* the traces of Extract: of the finished calls and of the running one
ExtractTraces ==
    { hist[i].trace : i \in FinishedOp("Extract") }
    \cup (IF ExtractRunning THEN {trace} ELSE {})

\* C11: for an entry of size 0, Extract creates an empty file at the entry's
\* path, reads no payload byte for it, and reads its next block right after
\* that entry's header.
C11_SizeZeroEntry ==
    /\ (pc = "ExtractPayload" /\ SizeZeroAt(hdrAt)) =>
          /\ totalBytesToRead = 0
          /\ offset = hdrAt + headerSize
          /\ readHigh = hdrAt + headerSize
          /\ pathToFile = EntryPath(HeaderAt(hdrAt))
          /\ Holds(fs, pathToFile, <<>>)
    /\ (pc = "Extract" /\ trace # <<>> /\ SizeZeroAt(trace[Len(trace)].hdr)) =>
          /\ offset = trace[Len(trace)].hdr + headerSize
          /\ readHigh = trace[Len(trace)].hdr + headerSize
          /\ Holds(fs, trace[Len(trace)].path, <<>>)
    /\ \A tr \in ExtractTraces :
          \A k \in 1..(Len(tr) - 1) :
              SizeZeroAt(tr[k].hdr) => tr[k + 1].hdr = tr[k].hdr + headerSize

\* Extract has completed an entry of size 0 and the entry after it
C11_Witness ==
    /\ ValidArchive
    /\ pc = "Extract"
    /\ Len(trace) = 2
    /\ SizeZeroAt(trace[1].hdr)
    /\ trace[2].hdr = headerSize
    /\ Holds(fs, trace[1].path, <<>>)

Scenario == archive = ScenarioArchive

ATxt == <<97, 46, 116, 120, 116>>
Hello == <<104, 101, 108, 108, 111>>

\* the line of List for the scenario's entry, with the given path
ScenarioLine(path) == <<53, Space>> \o FormatTime(1) \o <<Space>> \o path

\* C12 as stated (Extract taken on a Reader whose stored count is 0): on the
\* a.txt/hello archive Extract returns (1, nil) and writes hello to a.txt, and
\* List returns one descriptor of size 5 whose path is ./a.txt.
C12_ScenarioDotSlashPath ==
    Scenario =>
        /\ \A i \in FinishedOp("Extract") :
              hist[i].stored = 0 =>
                  /\ hist[i].count = 1
                  /\ hist[i].err = "nil"
                  /\ Holds(hist[i].fs, ATxt, Hello)
        /\ \A j \in FinishedOp("List") :
              /\ hist[j].err = "nil"
              /\ hist[j].list = << ScenarioLine(<<Dot, PathSeparator>> \o ATxt) >>

\* C12 amended: on the a.txt/hello archive an Extract on a Reader whose stored
\* count is 0 returns (1, nil), every Extract writes hello to a.txt, and List
\* returns one descriptor of size 5 whose path is a.txt, the cleaned path.
C12_ScenarioCleanPath ==
    Scenario =>
        /\ \A i \in FinishedOp("Extract") :
              /\ hist[i].stored = 0 => hist[i].count = 1
              /\ hist[i].err = "nil"
              /\ Holds(hist[i].fs, ATxt, Hello)
        /\ \A j \in FinishedOp("List") :
              /\ hist[j].err = "nil"
              /\ hist[j].list = << ScenarioLine(ATxt) >>

\* Extract, with a short read, and then List have returned on the scenario
C12_Witness ==
    /\ Scenario
    /\ shortRead
    /\ Len(hist) = 2
    /\ hist[1].op = "Extract"
    /\ hist[1].count = 1
    /\ hist[2].op = "List"
    /\ Len(hist[2].list) = 1

EmptyPrefixAt(off) == Trim(HeaderAt(off).Prefix) = <<>>

PlainNameAt(off) == LastSlash(Trim(HeaderAt(off).Name)) = 0

\* the file sits directly in the root and no directory was made for it
DirectlyUnderRoot(p, mk) == LastSlash(p) = 0 /\ mk = {}

\* C13 as stated: an entry whose trimmed prefix is empty is written directly
\* under the root, and no intermediate directory is created for it.
C13_EmptyPrefixUnderRoot ==
    /\ \A tr \in ExtractTraces : \A k \in 1..Len(tr) :
          EmptyPrefixAt(tr[k].hdr) => DirectlyUnderRoot(tr[k].path, tr[k].mk)
    /\ (pc = "ExtractPayload" /\ EmptyPrefixAt(hdrAt))
          => DirectlyUnderRoot(pathToFile, made)

\* C13 amended: an entry whose trimmed prefix is empty and whose trimmed name
\* holds no path separator is written directly under the root, and no
\* intermediate directory is created for it.
C13_EmptyPrefixPlainNameUnderRoot ==
    /\ \A tr \in ExtractTraces : \A k \in 1..Len(tr) :
          (EmptyPrefixAt(tr[k].hdr) /\ PlainNameAt(tr[k].hdr))
              => DirectlyUnderRoot(tr[k].path, tr[k].mk)
    /\ (pc = "ExtractPayload" /\ EmptyPrefixAt(hdrAt) /\ PlainNameAt(hdrAt))
          => DirectlyUnderRoot(pathToFile, made)

\* Extract has written an empty-prefix entry after one that needed a directory
C13_Witness ==
    /\ pc = "Extract"
    /\ Len(trace) = 2
    /\ ~EmptyPrefixAt(trace[1].hdr)
    /\ trace[1].mk # {}
    /\ EmptyPrefixAt(trace[2].hdr)
    /\ PlainNameAt(trace[2].hdr)
    /\ IsFile(fs, trace[2].path)

\* C14: a GetFilesCount that returns the stored count returns the same count
\* and error as a GetFilesCount on the same archive that traverses it from
\* offset 0, whatever ran in between.
C14_CachedEqualsFresh ==
    \A i, j \in FinishedOp("GetFilesCount") :
        (hist[i].stop # "cached" /\ hist[j].stop = "cached")
            => /\ hist[j].count = hist[i].count
               /\ hist[j].err = hist[i].err

\* the size the loops advance by for the header at off (0 when GetSize fails)
SizeAt(off) == GetSize(HeaderAt(off)).size

\* sum of (headerSize + size) over the first k entries of a traversal
RECURSIVE BoundaryAfter(_, _)
BoundaryAfter(tr, k) ==
    IF k = 0 THEN 0
    ELSE BoundaryAfter(tr, k - 1) + headerSize + SizeAt(tr[k].hdr)

LoopHead == pc \in {"Extract", "GetFilesCount", "List"}

\* C15: at the start of every loop iteration of Extract, List and
\* GetFilesCount the stream offset is the sum of (headerSize + size) over the
\* entries visited so far, and each visited header began at the sum over the
\* entries before it; for Extract also when reads came back short.
C15_HeaderBoundary ==
    LoopHead =>
        /\ offset = BoundaryAfter(trace, Len(trace))
        /\ \A k \in 1..Len(trace) : trace[k].hdr = BoundaryAfter(trace, k - 1)

\* Extract is back at its loop head after two entries, one read in pieces
C15_Witness ==
    /\ pc = "Extract"
    /\ Len(trace) = 2
    /\ shortRead
    /\ SizeAt(trace[1].hdr) + SizeAt(trace[2].hdr) >= 3
    /\ offset = 2 * headerSize + SizeAt(trace[1].hdr) + SizeAt(trace[2].hdr)

\* the headers of the running traversal were read at increasing offsets
NoRevisit ==
    /\ \A j, k \in 1..Len(trace) : j < k => trace[j].hdr < trace[k].hdr
    /\ \A k \in 1..Len(trace) : trace[k].hdr <= hdrAt

Running == pc # "idle"

\* C16: every traversal terminates: whatever the archive (valid, without its
\* sentinel, truncated, with a size field GetSize accepts or rejects), a
\* running Extract, List or GetFilesCount eventually returns, and it never
\* reads a header at an offset it has already processed.
C16_TraversalsTerminate ==
    /\ []NoRevisit
    /\ Running ~> ~Running

\* all three operations have returned on an archive that is not valid
C16_Witness ==
    /\ ~ValidArchive
    /\ pc = "idle"
    /\ Len(hist) = 3
    /\ {hist[i].op : i \in 1..3} = {"Extract", "List", "GetFilesCount"}
    /\ \E i \in 1..3 : Len(hist[i].trace) >= 2

\* index of the last space of a descriptor line, 0 when there is none
RECURSIVE LastSpace(_)
LastSpace(line) ==
    IF line = <<>> THEN 0
    ELSE IF line[Len(line)] = Space THEN Len(line)
         ELSE LastSpace(SubSeq(line, 1, Len(line) - 1))

\* the path field of a descriptor line: what follows its last space
DescriptorPath(line) == SubSeq(line, LastSpace(line) + 1, Len(line))

DescriptorPaths(list) == [k \in 1..Len(list) |-> DescriptorPath(list[k])]

\* the destination paths an Extract wrote, in order
WrittenPaths(tr) == [k \in 1..Len(tr) |-> tr[k].path]

FreshCounts == { i \in FinishedOp("GetFilesCount") : hist[i].stop # "cached" }

\* C17 as stated: for a valid archive, the paths any Extract wrote are, in
\* order, the paths of the descriptors List returns, and both sequences have
\* the length a GetFilesCount that traverses the archive reports.
C17_SameEntriesEveryExtract ==
    ValidArchive =>
        /\ \A i \in FinishedOp("Extract") : \A j \in FinishedOp("List") :
              WrittenPaths(hist[i].trace) = DescriptorPaths(hist[j].list)
        /\ \A i \in FinishedOp("Extract") : \A g \in FreshCounts :
              Len(hist[i].trace) = hist[g].count
        /\ \A j \in FinishedOp("List") : \A g \in FreshCounts :
              Len(hist[j].list) = hist[g].count

\* C17 amended: for a valid archive, the paths an Extract that returned
\* without error wrote are, in order, the paths of the descriptors List
\* returns, and both sequences have the length a GetFilesCount that traverses
\* the archive reports.
C17_SameEntriesSuccessfulExtract ==
    ValidArchive =>
        /\ \A i \in FinishedOp("Extract") : \A j \in FinishedOp("List") :
              hist[i].err = "nil"
                  => WrittenPaths(hist[i].trace) = DescriptorPaths(hist[j].list)
        /\ \A i \in FinishedOp("Extract") : \A g \in FreshCounts :
              hist[i].err = "nil" => Len(hist[i].trace) = hist[g].count
        /\ \A j \in FinishedOp("List") : \A g \in FreshCounts :
              /\ hist[j].err = "nil"
              /\ hist[g].err = "nil"
              /\ Len(hist[j].list) = hist[g].count

\* a traversing GetFilesCount, an Extract and a List have all returned on a
\* valid archive of two entries, the second below a directory
C17_Witness ==
    /\ ValidArchive
    /\ Len(hist) = 3
    /\ hist[1].op = "GetFilesCount" /\ hist[1].count = 2
    /\ hist[2].op = "Extract" /\ hist[2].err = "nil" /\ Len(hist[2].trace) = 2
    /\ hist[3].op = "List" /\ Len(hist[3].list) = 2
    /\ LastSlash(hist[2].trace[2].path) # 0

\* a cleaned relative path that does not climb out of the directory it
\* is relative to
InsideRoot(p) ==
    /\ p # <<>>
    /\ Head(p) # PathSeparator
    /\ SplitSegs(p, <<>>)[1] # DotDotSeg

\* C18: every file Extract writes and every directory it creates lies at or
\* below the destination root, also for entries whose prefix or name hold
\* "." or ".." segments.
C18_ExtractStaysInsideRoot ==
    /\ \A tr \in ExtractTraces : \A k \in 1..Len(tr) :
          /\ InsideRoot(tr[k].path)
          /\ \A d \in tr[k].mk : InsideRoot(d)
    /\ pc = "ExtractPayload"
          => /\ InsideRoot(pathToFile)
             /\ \A d \in made : InsideRoot(d)

KeepsCounter == {"Extract", "GetFilesCount"}

\* C19: only List changes the caller's stored counter: while Extract or
\* GetFilesCount runs and after it has returned, with or without error,
\* NumberOfFiles is what it was at the call; so on a Reader that never ran
\* List the counter is 0 and every GetFilesCount traverses the archive.
C19_OnlyListChangesCounter ==
    /\ pc \in {"Extract", "ExtractPayload", "GetFilesCount"}
          => NumberOfFiles = atCall.stored
    /\ (pc = "idle" /\ hist # <<>> /\ hist[Len(hist)].op \in KeepsCounter)
          => NumberOfFiles = hist[Len(hist)].stored
    /\ \A i \in 1..(Len(hist) - 1) :
          hist[i].op \in KeepsCounter => hist[i + 1].stored = hist[i].stored
    /\ (FinishedOp("List") = {} /\ pc # "List")
          => /\ NumberOfFiles = 0
             /\ \A g \in FinishedOp("GetFilesCount") : hist[g].stop # "cached"

\* Extract wrote two entries, then two GetFilesCount calls each traversed
\* the archive, and the stored counter is still 0
C19_Witness ==
    /\ pc = "idle"
    /\ Len(hist) = 3
    /\ hist[1].op = "Extract" /\ hist[1].count = 2
    /\ hist[2].op = "GetFilesCount" /\ hist[2].stop = "eof" /\ hist[2].count = 2
    /\ hist[3].op = "GetFilesCount" /\ hist[3].stop = "eof" /\ hist[3].count = 2
    /\ NumberOfFiles = 0

====
